---------------------------- MODULE Spec2Model ----------------------------
(***************************************************************************)
(* A model of the breaks tree of xi-rope (rust/rope/src/breaks2.rs): the   *)
(* BreaksLeaf, its NodeInfo, the two metrics, the BreakBuilder, and the    *)
(* tree operations (TreeBuilder push/build, edit) the leaf is used by.     *)
(*                                                                         *)
(* A leaf is a record [len, data], data a sequence of <<offset, width>>.   *)
(* An Option is a sequence of length 0 (None) or 1 (Some).                 *)
(* A tree is kept as its root summary and its leaf nodes in order, each    *)
(* leaf node with the len and info cached when the node was made.          *)
(*                                                                         *)
(* Further sections model the front-end edit commands of xi-core           *)
(* (rust/core-lib/src/rpc.rs: decoding and serializing an EditCommand),    *)
(* the plugin-side request handler (rust/plugin-lib/src/plugin_base.rs),   *)
(* and the update thread and the start of a plugin process                 *)
(* (rust/core-lib/src/plugins/mod.rs).  Each has its own specification.    *)
(***************************************************************************)
EXTENDS Integers, Sequences, FiniteSets, TLC

\* ------------------------------------------------------------------ bounds

\* usize is modelled UsizeBits wide: arithmetic on it wraps at 2^UsizeBits.
UsizeBits == 12

\* The builder takes at most MaxCalls add_break calls.
MaxCalls == 66

\* An edit replaces at most MaxSpan base units.
MaxSpan == 2

\* Offsets and counts handed to the metric conversions range over 0..MaxQuery,
\* on leaves of at most MetricLen units with at most MetricEntries breaks.
MaxQuery == 5

MetricLen == 3

MetricEntries == 3

\* ------------------------------------------------------- program constants

MIN_LEAF == 32

MAX_LEAF == 64

\* ------------------------------------------------------------- arithmetic

USIZE == 2 ^ UsizeBits

\* usize addition and subtraction of a release build (wrapping).
WrapAdd(a, b) == (a + b) % USIZE

WrapSub(a, b) == (a - b) % USIZE

Min(a, b) == IF a <= b THEN a ELSE b

Max(a, b) == IF a >= b THEN a ELSE b

None == << >>

Some(x) == << x >>

\* ------------------------------------------------------------- BreaksLeaf

DefaultLeaf == [len |-> 0, data |-> << >>]

is_ok_child(l) == Len(l.data) >= MIN_LEAF

\* The entries of other that push_maybe_split adopts, rewritten for self.
Adopted(self, other, start, end) ==
    LET keep == SelectSeq(other.data, LAMBDA e : start < e[1] /\ e[1] <= end)
    IN  [i \in 1..Len(keep) |->
            << WrapAdd(WrapSub(keep[i][1], start), self.len), keep[i][2] >>]

\* Whether a build with overflow checks panics in push_maybe_split: one of its
\* usize subtractions goes below zero.
PmsOverflows(self, other, start, end) ==
    LET data1 == self.data \o Adopted(self, other, start, end)
        len1  == WrapAdd(self.len, WrapSub(Min(end, other.len), start))
    IN  \/ Min(end, other.len) < start
        \/ /\ Len(data1) > MAX_LEAF
           /\ LET splitpoint       == Len(data1) \div 2
                  splitpoint_units == data1[splitpoint][1]
              IN  \/ len1 < splitpoint_units
                  \/ \E i \in (splitpoint + 1)..Len(data1) :
                        data1[i][1] < splitpoint_units

\* A faulty push_maybe_split: an entry at v == start is adopted too.
push_maybe_split_from_start(self, other, start, end) ==
    LET keep  == SelectSeq(other.data, LAMBDA e : start <= e[1] /\ e[1] <= end)
        data1 == self.data \o
                 [i \in 1..Len(keep) |->
                    << WrapAdd(WrapSub(keep[i][1], start), self.len), keep[i][2] >>]
        len1  == WrapAdd(self.len, WrapSub(Min(end, other.len), start))
    IN  IF Len(data1) <= MAX_LEAF
        THEN [self |-> [len |-> len1, data |-> data1], new |-> None]
        ELSE LET splitpoint       == Len(data1) \div 2
                 splitpoint_units == data1[splitpoint][1]
                 new == [i \in 1..(Len(data1) - splitpoint) |->
                           << WrapSub(data1[splitpoint + i][1], splitpoint_units),
                              data1[splitpoint + i][2] >>]
             IN  [self |-> [len |-> splitpoint_units,
                            data |-> SubSeq(data1, 1, splitpoint)],
                  new  |-> Some([len  |-> WrapSub(len1, splitpoint_units),
                                 data |-> new])]

\* A faulty push_maybe_split: the split offset is read one entry too late
\* (data[splitpoint], not data[splitpoint - 1], of the 0-indexed Vec).
push_maybe_split_late_units(self, other, start, end) ==
    LET data1 == self.data \o Adopted(self, other, start, end)
        len1  == WrapAdd(self.len, WrapSub(Min(end, other.len), start))
    IN  IF Len(data1) <= MAX_LEAF
        THEN [self |-> [len |-> len1, data |-> data1], new |-> None]
        ELSE LET splitpoint       == Len(data1) \div 2
                 splitpoint_units == data1[splitpoint + 1][1]
                 new == [i \in 1..(Len(data1) - splitpoint) |->
                           << WrapSub(data1[splitpoint + i][1], splitpoint_units),
                              data1[splitpoint + i][2] >>]
             IN  [self |-> [len |-> splitpoint_units,
                            data |-> SubSeq(data1, 1, splitpoint)],
                  new  |-> Some([len  |-> WrapSub(len1, splitpoint_units),
                                 data |-> new])]

\* A faulty push_maybe_split: an overfull leaf keeps MAX_LEAF entries and
\* hands on the rest.
push_maybe_split_at_capacity(self, other, start, end) ==
    LET data1 == self.data \o Adopted(self, other, start, end)
        len1  == WrapAdd(self.len, WrapSub(Min(end, other.len), start))
    IN  IF Len(data1) <= MAX_LEAF
        THEN [self |-> [len |-> len1, data |-> data1], new |-> None]
        ELSE LET splitpoint       == MAX_LEAF
                 splitpoint_units == data1[splitpoint][1]
                 new == [i \in 1..(Len(data1) - splitpoint) |->
                           << WrapSub(data1[splitpoint + i][1], splitpoint_units),
                              data1[splitpoint + i][2] >>]
             IN  [self |-> [len |-> splitpoint_units,
                            data |-> SubSeq(data1, 1, splitpoint)],
                  new  |-> Some([len  |-> WrapSub(len1, splitpoint_units),
                                 data |-> new])]

\* self.push_maybe_split(other, [start, end)): self afterwards and the leaf returned.
push_maybe_split(self, other, start, end) ==
    LET data1 == self.data \o Adopted(self, other, start, end)
        len1  == WrapAdd(self.len, WrapSub(Min(end, other.len), start))
    IN  IF Len(data1) <= MAX_LEAF
        THEN [self |-> [len |-> len1, data |-> data1], new |-> None]
        ELSE LET splitpoint       == Len(data1) \div 2
                 splitpoint_units == data1[splitpoint][1]
                 new == [i \in 1..(Len(data1) - splitpoint) |->
                           << WrapSub(data1[splitpoint + i][1], splitpoint_units),
                              data1[splitpoint + i][2] >>]
             IN  [self |-> [len |-> splitpoint_units,
                            data |-> SubSeq(data1, 1, splitpoint)],
                  new  |-> Some([len  |-> WrapSub(len1, splitpoint_units),
                                 data |-> new])]

\* ------------------------------------------------------------- BreaksInfo

\* A faulty accumulate: the widest break of other is forgotten.
accumulate_keeps_width(self, other) ==
    [count |-> self.count + other.count, max_width |-> self.max_width]

accumulate(self, other) ==
    [count     |-> self.count + other.count,
     max_width |-> Max(other.max_width, self.max_width)]

\* l.data.iter().map(|(_, w)| *w).max().unwrap_or(0)
MaxWidthOf(data) ==
    LET ws == {data[i][2] : i \in 1..Len(data)}
    IN  IF ws = {} THEN 0 ELSE CHOOSE w \in ws : \A x \in ws : x <= w

compute_info(l) ==
    [count |-> Len(l.data), max_width |-> MaxWidthOf(l.data)]

\* ----------------------------------------------------------- BreaksMetric

\* A faulty to_base_units: the out-of-range sentinel is the leaf's len.
to_base_units_len_sentinel(l, in_measured_units) ==
    IF in_measured_units > Len(l.data) THEN l.len
    ELSE IF in_measured_units = 0 THEN 0
    ELSE l.data[in_measured_units][1]

\* A faulty to_base_units: the count is used as a 0-based index.
to_base_units_from_zero(l, in_measured_units) ==
    IF in_measured_units >= Len(l.data) THEN WrapAdd(l.len, 1)
    ELSE l.data[in_measured_units + 1][1]

\* BreaksMetric::to_base_units (data[k - 1] of the 0-indexed Vec is data[k]).
to_base_units(l, in_measured_units) ==
    IF in_measured_units > Len(l.data) THEN WrapAdd(l.len, 1)
    ELSE IF in_measured_units = 0 THEN 0
    ELSE l.data[in_measured_units][1]

\* slice::binary_search_by_key on the offsets, which are sorted: Ok(n) for a
\* 0-based index n of an entry with that offset (any one of them when several
\* have it), Err(n) for the index n where it could be inserted.
binary_search_by_key(data, key) ==
    LET hits == {i \in 1..Len(data) : data[i][1] = key}
    IN  IF hits # {}
        THEN {[ok |-> TRUE, n |-> i - 1] : i \in hits}
        ELSE {[ok |-> FALSE,
               n  |-> Cardinality({i \in 1..Len(data) : data[i][1] < key})]}

\* A faulty from_base_units: an exact hit returns the index, not index + 1.
from_base_units_hit_index(l, in_base_units) ==
    {r.n : r \in binary_search_by_key(l.data, in_base_units)}

\* BreaksMetric::from_base_units: the values it can return.
from_base_units(l, in_base_units) ==
    {IF r.ok THEN r.n + 1 ELSE r.n : r \in binary_search_by_key(l.data, in_base_units)}

\* BreaksMetric::is_boundary: the search finds an entry with that offset.
is_boundary(l, offset) ==
    \E r \in binary_search_by_key(l.data, offset) : r.ok

\* BreaksMetric::measure.
measure(info, len) == info.count

\* BreaksMetric::next: the values it can return (None past the last entry).
next(l, offset) ==
    {IF n = Len(l.data) THEN None ELSE Some(l.data[n + 1][1]) :
        n \in {IF r.ok THEN r.n + 1 ELSE r.n :
                  r \in binary_search_by_key(l.data, offset)}}

\* A faulty prev: the scan stops at the first entry past the offset, so an
\* entry at the offset itself is returned.
prev_at_or_before(l, offset) ==
    LET past == {i \in 1..Len(l.data) : offset < l.data[i][1]}
    IN  IF past = {}
        THEN IF l.data = << >> THEN None ELSE Some(l.data[Len(l.data)][1])
        ELSE LET i == CHOOSE j \in past : \A k \in past : j <= k
             IN  IF i = 1 THEN None ELSE Some(l.data[i - 1][1])

\* BreaksMetric::prev: a scan from the front for the first entry i with
\* offset <= data[i].0; None when it is the first entry, the entry before it
\* otherwise, and the last entry (None on an empty leaf) when there is none.
prev(l, offset) ==
    LET past == {i \in 1..Len(l.data) : offset <= l.data[i][1]}
    IN  IF past = {}
        THEN IF l.data = << >> THEN None ELSE Some(l.data[Len(l.data)][1])
        ELSE LET i == CHOOSE j \in past : \A k \in past : j <= k
             IN  IF i = 1 THEN None ELSE Some(l.data[i - 1][1])

\* ------------------------------------------------------- BreaksBaseMetric

BreaksBaseMetric_measure(info, len) == len

BreaksBaseMetric_to_base_units(l, in_measured_units) == in_measured_units

BreaksBaseMetric_from_base_units(l, in_base_units) == {in_base_units}

BreaksBaseMetric_is_boundary(l, offset) == is_boundary(l, offset)

BreaksBaseMetric_prev(l, offset) == prev(l, offset)

BreaksBaseMetric_next(l, offset) == next(l, offset)

\* ------------------------------------------------- Node (leaves in order)

\* A leaf node: the leaf with the len and info cached when the node is made.
LeafNode(l) == [leaf |-> l, len |-> l.len, info |-> compute_info(l)]

RECURSIVE SumLen(_, _)
SumLen(nodes, i) ==
    IF i > Len(nodes) THEN 0 ELSE nodes[i].len + SumLen(nodes, i + 1)

RECURSIVE AccInfo(_, _, _)
AccInfo(info, nodes, i) ==
    IF i > Len(nodes) THEN info
    ELSE AccInfo(accumulate(info, nodes[i].info), nodes, i + 1)

\* A node over the given children: len and info accumulated from the children's.
from_nodes(nodes) ==
    [nodes |-> nodes,
     len   |-> SumLen(nodes, 1),
     info  |-> AccInfo(nodes[1].info, nodes, 2)]

from_leaf(l) == from_nodes(<< LeafNode(l) >>)

Front(s) == SubSeq(s, 1, Len(s) - 1)

\* rope1 ++ rope2. Two leaves that are not both ok children are merged with
\* push_maybe_split, the first one's len and info recomputed.
concat(rope1, rope2) ==
    LET n1 == rope1.nodes[Len(rope1.nodes)]
        n2 == rope2.nodes[1]
    IN  IF is_ok_child(n1.leaf) /\ is_ok_child(n2.leaf)
        THEN [nodes |-> rope1.nodes \o rope2.nodes,
              len   |-> rope1.len + rope2.len,
              info  |-> accumulate(rope1.info, rope2.info)]
        ELSE LET r == push_maybe_split(n1.leaf, n2.leaf, 0, n2.leaf.len)
                 merged == << LeafNode(r.self) >> \o
                           (IF r.new = None THEN << >>
                            ELSE << LeafNode(r.new[1]) >>)
             IN  from_nodes(Front(rope1.nodes) \o merged \o Tail(rope2.nodes))

\* ------------------------------------------------------------ TreeBuilder

\* TreeBuilder::push: the builder is None (nothing pushed) or Some(tree).
push(b, n) == IF b = None THEN Some(n) ELSE Some(concat(b[1], n))

\* TreeBuilder::build.
tb_build(b) == IF b = None THEN from_leaf(DefaultLeaf) ELSE b[1]

\* Leaf::subseq: the slice [start, end) of a leaf, through push_maybe_split.
subseq(l, start, end) == push_maybe_split(DefaultLeaf, l, start, end).self

\* push_slice on the children of a node, from child i at base offset `offset`.
RECURSIVE PushChildren(_, _, _, _, _, _)
PushChildren(b, nodes, i, offset, start, end) ==
    IF i > Len(nodes) \/ end <= offset THEN b
    ELSE LET child == nodes[i]
             rs    == Max(start, offset)
             re    == Max(rs, Min(end, offset + child.len))
             b1    == IF re <= rs THEN b
                      ELSE IF rs = offset /\ re = offset + child.len
                           THEN push(b, from_nodes(<< child >>))
                           ELSE push(b, from_leaf(subseq(child.leaf,
                                                         rs - offset, re - offset)))
         IN  PushChildren(b1, nodes, i + 1, offset + child.len, start, end)

\* TreeBuilder::push_slice(n, [start, end)).
push_slice(b, n, start, end) ==
    IF end <= start THEN b
    ELSE IF start = 0 /\ end = n.len THEN push(b, n)
    ELSE IF Len(n.nodes) = 1
         THEN push(b, from_leaf(subseq(n.nodes[1].leaf, start, end)))
         ELSE PushChildren(b, n.nodes, 1, 0, start, end)

\* Node::subseq([start, end)): the slice as a tree of its own.
node_subseq(n, start, end) == tb_build(push_slice(None, n, start, end))

\* Node::edit([start, end), new): prefix, replacement, suffix through a builder.
edit(self, start, end, new) ==
    LET b1 == push_slice(None, self, 0, Min(self.len, start))
        b2 == push(b1, new)
        b3 == push_slice(b2, self, Max(0, end), Max(self.len, end))
    IN  tb_build(b3)

\* Breaks::new_no_break.
new_no_break(len) == from_leaf([len |-> len, data |-> << >>])

\* Breaks::max_width.
max_width(t) == t.info.max_width

\* ----------------------------------------------------------- BreakBuilder

\* BreakBuilder::default: [b, leaf].
NewBuilder == [b |-> None, leaf |-> DefaultLeaf]

add_break(bb, len, width) ==
    LET full == Len(bb.leaf.data) = MAX_LEAF
        b1   == IF full THEN push(bb.b, from_leaf(bb.leaf)) ELSE bb.b
        l0   == IF full THEN DefaultLeaf ELSE bb.leaf
        n    == WrapAdd(l0.len, len)
    IN  [b |-> b1, leaf |-> [len |-> n, data |-> Append(l0.data, << n, width >>)]]

\* A faulty add_no_break: the length is not extended.
add_no_break_forgets(bb, len) == bb

add_no_break(bb, len) ==
    [b |-> bb.b, leaf |-> [len |-> WrapAdd(bb.leaf.len, len), data |-> bb.leaf.data]]

build(bb) == tb_build(push(bb.b, from_leaf(bb.leaf)))

\* ---------------------------------------------------------- what a tree holds

\* The break entries of a tree as (absolute offset, width), in leaf order.
RECURSIVE EntriesFrom(_, _, _)
EntriesFrom(nodes, i, offset) ==
    IF i > Len(nodes) THEN << >>
    ELSE [k \in 1..Len(nodes[i].leaf.data) |->
             << nodes[i].leaf.data[k][1] + offset, nodes[i].leaf.data[k][2] >>]
         \o EntriesFrom(nodes, i + 1, offset + nodes[i].leaf.len)

Entries(t) == EntriesFrom(t.nodes, 1, 0)

Leaves(t) == [i \in 1..Len(t.nodes) |-> t.nodes[i].leaf]

\* ------------------------------------------------------------------ state

VARIABLES
    builder,    \* the BreakBuilder [b, leaf] of the run
    pc,         \* "building", "built" (build returned), "made" (new_no_break), "edited"
    breaks,     \* the tree the run holds once built
    added,      \* the calls made on the builder: <<"break", len, width>>, <<"no_break", len>>
    edited,     \* the last edit: None or Some([t, start, end, new])
    call,       \* a direct push_maybe_split call: its arguments and outcome
    query,      \* a metric conversion on a leaf: its arguments and result
    cursor,     \* a cursor on a tree: where it is and what next has returned
    share,      \* leaf nodes held by reference: a snapshot and the tree edited
    rpc,        \* a front-end edit command: the object received and its decoding,
                \* or the command serialized and what it decodes back to
    handler,    \* a plugin's RPC handler: the request received and what became of it
    updates,    \* the update thread: its channel and what it has forwarded
    launch      \* a start_plugin_process run: where its thread is and what it did

vars ==
    << builder, pc, breaks, added, edited, call, query, cursor, share, rpc,
       handler, updates, launch >>

\* ----------------------------------------------------------------- inputs

Lens == {0, 1, 2}

Widths == {1, 3}

\* The arguments explored for the next add_break: every (len, width) for the
\* first break of a leaf, (1, 1) for the breaks that fill it.
BreakArgs(l) ==
    IF Len(l.data) \in {0, MAX_LEAF} THEN Lens \X Widths ELSE {<< 1, 1 >>}

NumBreaks(calls) == Len(SelectSeq(calls, LAMBDA c : c[1] = "break"))

\* The leaf of a builder after add_break(fl, fw), n - 1 calls add_break(1, 1)
\* and add_no_break(tail), for 1 <= n <= MAX_LEAF.
BuilderLeaf(fl, fw, n, tail) ==
    [len  |-> fl + (n - 1) + tail,
     data |-> [i \in 1..n |-> << fl + (i - 1), IF i = 1 THEN fw ELSE 1 >>]]

\* The builder-made trees with a single break of width 5 at offset 0: the
\* break alone, and the break followed by 5 units.
SingleBreakAtStart ==
    { build(add_break(NewBuilder, 0, 5)),
      build(add_no_break(add_break(NewBuilder, 0, 5), 5)) }

\* The replacements an edit is explored with: Breaks::default(), an unbroken
\* run, and builder-made trees: one break at the end of one unit, one break
\* added with len 0, more than half a leaf of breaks, and a single break of
\* width 5 at offset 0.
Replacements ==
    { from_leaf(DefaultLeaf),
      new_no_break(1),
      build(add_break(NewBuilder, 1, 2)),
      build(add_break(NewBuilder, 0, 2)),
      build([b |-> None, leaf |-> BuilderLeaf(1, 1, MIN_LEAF + 1, 0)]) }
    \cup SingleBreakAtStart

\* The interval starts an edit is explored with: around the start of the
\* tree, around the end of its first leaf, its middle and around its end.
EditStarts(t) ==
    ({0, 1, 2} \cup {t.nodes[1].len - 1, t.nodes[1].len, t.len \div 2,
                     t.len - 1, t.len})
        \cap (0..t.len)

\* The lengths new_no_break is explored with.
NoBreakLens == Lens \cup {100}

\* ----------------------------------------------------------------- actions

Init ==
    /\ builder = NewBuilder
    /\ pc = "building"
    /\ breaks = from_leaf(DefaultLeaf)
    /\ added = << >>
    /\ edited = None
    /\ call = None
    /\ query = None
    /\ cursor = None
    /\ share = None
    /\ rpc = None
    /\ handler = None
    /\ updates = None
    /\ launch = None

AddBreak ==
    /\ pc = "building"
    /\ NumBreaks(added) < MaxCalls
    /\ \E a \in BreakArgs(builder.leaf) :
          /\ builder' = add_break(builder, a[1], a[2])
          /\ added' = Append(added, << "break", a[1], a[2] >>)
    /\ UNCHANGED << pc, breaks, edited, call, query, cursor, share, rpc,
                    handler, updates, launch >>

\* add_no_break is explored once before the first break of a leaf and once
\* after its last.
AddNoBreak ==
    /\ pc = "building"
    /\ Len(builder.leaf.data) \in {0, MAX_LEAF}
    /\ IF added = << >> THEN TRUE ELSE added[Len(added)][1] = "break"
    /\ builder' = add_no_break(builder, 1)
    /\ added' = Append(added, << "no_break", 1 >>)
    /\ UNCHANGED << pc, breaks, edited, call, query, cursor, share, rpc,
                    handler, updates, launch >>

Build ==
    /\ pc = "building"
    /\ breaks' = build(builder)
    /\ pc' = "built"
    /\ UNCHANGED << builder, added, edited, call, query, cursor, share, rpc,
                    handler, updates, launch >>

\* Breaks::new_no_break as the run's tree.
NewNoBreak ==
    /\ pc = "building"
    /\ added = << >>
    /\ \E len \in NoBreakLens : breaks' = new_no_break(len)
    /\ pc' = "made"
    /\ UNCHANGED << builder, added, edited, call, query, cursor, share, rpc,
                    handler, updates, launch >>

\* breaks.edit(start..end, new), on intervals inside the tree.  A tree that
\* came from new_no_break is edited again and again while it stays small.
Edit ==
    /\ \/ pc \in {"built", "made"}
       \/ /\ pc = "edited"
          /\ added = << >>
          /\ Len(Entries(breaks)) <= MaxSpan
          /\ breaks.len <= MaxSpan + 1
    /\ \E start \in EditStarts(breaks), new \in Replacements :
          \E end \in start..Min(breaks.len, start + MaxSpan) :
             /\ breaks' = edit(breaks, start, end, new)
             /\ edited' = Some([t |-> breaks, start |-> start, end |-> end,
                                new |-> new])
    /\ pc' = "edited"
    /\ UNCHANGED << builder, added, call, query, cursor, share, rpc, handler,
                    updates, launch >>

Next == AddBreak \/ AddNoBreak \/ Build \/ NewNoBreak \/ Edit

Spec == Init /\ [][Next]_vars


\* ------------------------------------------- push_maybe_split called directly

\* What a call can end as: it returns (self afterwards, the leaf returned), or,
\* where a usize subtraction goes below zero, it panics in a build with
\* overflow checks and returns the wrapped result in a build without.
PmsOutcomes(self, other, start, end) ==
    LET r == push_maybe_split(self, other, start, end)
    IN  {[status |-> "returned", self |-> r.self, new |-> r.new]}
        \cup (IF PmsOverflows(self, other, start, end)
              THEN {[status |-> "panicked", self |-> self, new |-> None]}
              ELSE {})

\* The leaves a call is explored with, as the builder makes them: a first
\* break of width 3 after fl units, breaks of width 1 one unit apart up to n
\* breaks, then tail units without a break.
LeafFamily ==
    {[len |-> tail, data |-> << >>] : tail \in {0, 1}}
    \cup {BuilderLeaf(fl, 3, n, tail) :
            fl \in Lens, n \in {1, 2, MIN_LEAF + 1, MAX_LEAF}, tail \in {0, 1}}

\* The interval ends explored for a slice of leaf l: around its start and
\* around its end, one past it included.
IvPoints(l) == ({0, 1, 2} \cup {l.len - 1, l.len, l.len + 1}) \cap Nat

InitLeaf ==
    /\ builder = NewBuilder
    /\ pc = "building"
    /\ breaks = from_leaf(DefaultLeaf)
    /\ added = << >>
    /\ edited = None
    /\ query = None
    /\ cursor = None
    /\ share = None
    /\ rpc = None
    /\ handler = None
    /\ updates = None
    /\ launch = None
    /\ call \in {[self |-> a, other |-> b, iv |-> None, out |-> None] :
                    a \in LeafFamily, b \in LeafFamily}

\* self.push_maybe_split(other, Interval { start, end }).
PushMaybeSplit ==
    /\ call.out = None
    /\ \E start \in IvPoints(call.other), end \in IvPoints(call.other) :
          \E o \in PmsOutcomes(call.self, call.other, start, end) :
             call' = [call EXCEPT !.iv = Some(<< start, end >>), !.out = Some(o)]
    /\ UNCHANGED << builder, pc, breaks, added, edited, query, cursor, share,
                    rpc, handler, updates, launch >>

NextLeaf == PushMaybeSplit

SpecLeaf == InitLeaf /\ [][NextLeaf]_vars


\* ------------------------------------------------ metric conversions on a leaf

\* The leaves a conversion is explored on: every leaf of at most MetricLen
\* units with at most MetricEntries breaks of width 1, offsets in 0..len in
\* non-decreasing order (what the builder makes, len arguments of 0 included).
MetricLeaves ==
    UNION { { [len |-> n, data |-> [i \in 1..k |-> << f[i], 1 >>]] :
                f \in {g \in [1..k -> 0..n] :
                         \A i \in 1..(k - 1) : g[i] <= g[i + 1]} } :
            n \in 0..MetricLen, k \in 0..MetricEntries }

InitMetric ==
    /\ builder = NewBuilder
    /\ pc = "building"
    /\ breaks = from_leaf(DefaultLeaf)
    /\ added = << >>
    /\ edited = None
    /\ call = None
    /\ cursor = None
    /\ share = None
    /\ rpc = None
    /\ handler = None
    /\ updates = None
    /\ launch = None
    /\ query \in {[leaf |-> l, op |-> "none", arg |-> 0, res |-> 0] :
                    l \in MetricLeaves}

\* BreaksMetric::to_base_units(leaf, k).
ToBaseUnits ==
    /\ query.op = "none"
    /\ \E k \in 0..MaxQuery :
          query' = [query EXCEPT !.op = "to_base_units", !.arg = k,
                                 !.res = to_base_units(query.leaf, k)]
    /\ UNCHANGED << builder, pc, breaks, added, edited, call, cursor, share,
                    rpc, handler, updates, launch >>

\* BreaksMetric::from_base_units(leaf, off).
FromBaseUnits ==
    /\ query.op = "none"
    /\ \E off \in 0..MaxQuery :
          \E r \in from_base_units(query.leaf, off) :
             query' = [query EXCEPT !.op = "from_base_units", !.arg = off, !.res = r]
    /\ UNCHANGED << builder, pc, breaks, added, edited, call, cursor, share,
                    rpc, handler, updates, launch >>

\* to_base_units(leaf, from_base_units(leaf, off)) in the break metric, for an
\* in-leaf offset that is a boundary.
RoundTrip ==
    /\ query.op = "none"
    /\ \E off \in 0..Min(MaxQuery, query.leaf.len) :
          /\ is_boundary(query.leaf, off)
          /\ \E k \in from_base_units(query.leaf, off) :
                query' = [query EXCEPT !.op = "round_trip", !.arg = off,
                                       !.res = to_base_units(query.leaf, k)]
    /\ UNCHANGED << builder, pc, breaks, added, edited, call, cursor, share,
                    rpc, handler, updates, launch >>

\* The same in the base metric.
RoundTripBase ==
    /\ query.op = "none"
    /\ \E off \in 0..Min(MaxQuery, query.leaf.len) :
          /\ BreaksBaseMetric_is_boundary(query.leaf, off)
          /\ \E k \in BreaksBaseMetric_from_base_units(query.leaf, off) :
                query' = [query EXCEPT
                            !.op = "round_trip_base", !.arg = off,
                            !.res = BreaksBaseMetric_to_base_units(query.leaf, k)]
    /\ UNCHANGED << builder, pc, breaks, added, edited, call, cursor, share,
                    rpc, handler, updates, launch >>

\* The two metrics by name.
Metrics == {"BreaksMetric", "BreaksBaseMetric"}

\* M::is_boundary(leaf, off).
IsBoundary ==
    /\ query.op = "none"
    /\ \E m \in Metrics, off \in 0..MaxQuery :
          query' = [query EXCEPT
                      !.op = "is_boundary", !.arg = off,
                      !.res = [m |-> m,
                               v |-> IF m = "BreaksMetric"
                                     THEN is_boundary(query.leaf, off)
                                     ELSE BreaksBaseMetric_is_boundary(query.leaf, off)]]
    /\ UNCHANGED << builder, pc, breaks, added, edited, call, cursor, share,
                    rpc, handler, updates, launch >>

\* M::prev(leaf, off).
Prev ==
    /\ query.op = "none"
    /\ \E m \in Metrics, off \in 0..MaxQuery :
          query' = [query EXCEPT
                      !.op = "prev", !.arg = off,
                      !.res = [m |-> m,
                               v |-> IF m = "BreaksMetric"
                                     THEN prev(query.leaf, off)
                                     ELSE BreaksBaseMetric_prev(query.leaf, off)]]
    /\ UNCHANGED << builder, pc, breaks, added, edited, call, cursor, share,
                    rpc, handler, updates, launch >>

\* M::next(leaf, off).
NextBoundary ==
    /\ query.op = "none"
    /\ \E m \in Metrics, off \in 0..MaxQuery :
          \E r \in (IF m = "BreaksMetric" THEN next(query.leaf, off)
                                          ELSE BreaksBaseMetric_next(query.leaf, off)) :
             query' = [query EXCEPT !.op = "next", !.arg = off,
                                    !.res = [m |-> m, v |-> r]]
    /\ UNCHANGED << builder, pc, breaks, added, edited, call, cursor, share,
                    rpc, handler, updates, launch >>

NextMetric ==
    \/ ToBaseUnits \/ FromBaseUnits \/ RoundTrip \/ RoundTripBase
    \/ IsBoundary \/ Prev \/ NextBoundary

SpecMetric == InitMetric /\ [][NextMetric]_vars

\* ------------------------------------------------------- a cursor on a tree

\* The cursor takes at most MaxYield positions from next.
MaxYield == 67

\* The metric m ("break" or "base") of a cursor: its measure and its next.
M_measure(m, info, len) ==
    IF m = "break" THEN measure(info, len) ELSE BreaksBaseMetric_measure(info, len)

M_next(m, l, offset) ==
    IF m = "break" THEN next(l, offset) ELSE BreaksBaseMetric_next(l, offset)

\* The base offset at which leaf i of a tree starts.
LeafStart(t, i) == SumLen(SubSeq(t.nodes, 1, i - 1), 1)

\* Cursor::new(root): at offset 0, in the first leaf.
Cursor_new(root, m) ==
    [root |-> root, metric |-> m, leaf |-> 1, pos |-> 0,
     yielded |-> << >>, done |-> FALSE]

\* Step 2 of next: from leaf j on, the first leaf whose info measures a
\* boundary is entered at its start and probed with M::next; a leaf the
\* probe finds nothing in is passed over.  None when no leaf is left.
RECURSIVE Descend(_, _, _)
Descend(root, m, j) ==
    IF j > Len(root.nodes) THEN {None}
    ELSE IF M_measure(m, root.nodes[j].info, root.nodes[j].len) = 0
         THEN Descend(root, m, j + 1)
         ELSE UNION {IF o = None THEN Descend(root, m, j + 1)
                     ELSE {Some([leaf |-> j, pos |-> o[1]])} :
                        o \in M_next(m, root.nodes[j].leaf, 0)}

\* Cursor::next<M>: where the cursor can land (None: no boundary is left).
cursor_next(c) ==
    UNION {IF o = None THEN Descend(c.root, c.metric, c.leaf + 1)
           ELSE {Some([leaf |-> c.leaf, pos |-> o[1]])} :
              o \in M_next(c.metric, c.root.nodes[c.leaf].leaf, c.pos)}

\* The builder after add_break(4,4); add_break(4,10); add_break(4,2).
ThreeLines ==
    add_break(add_break(add_break(NewBuilder, 4, 4), 4, 10), 4, 2)

\* The builder after MAX_LEAF + 1 calls of add_break, the first with len fl.
OverOneLeaf(fl) ==
    add_break([b |-> None, leaf |-> BuilderLeaf(fl, 3, MAX_LEAF, 0)], 1, 1)

\* The trees a cursor is explored on: unbroken runs and built trees of one,
\* two and three breaks and of more than a leaf of breaks.
CursorTrees ==
    {new_no_break(n) : n \in Lens}
    \cup {build(add_no_break(add_break(NewBuilder, a, 1), c)) :
             a \in Lens, c \in {0, 1}}
    \cup {build(add_no_break(add_break(add_break(NewBuilder, a, 1), b, 3), c)) :
             a \in Lens, b \in Lens, c \in {0, 1}}
    \cup {build(ThreeLines)}
    \cup {build(OverOneLeaf(fl)) : fl \in Lens}

InitCursor ==
    /\ builder = NewBuilder
    /\ pc = "building"
    /\ breaks = from_leaf(DefaultLeaf)
    /\ added = << >>
    /\ edited = None
    /\ call = None
    /\ query = None
    /\ cursor \in {Cursor_new(t, m) : t \in CursorTrees, m \in {"break", "base"}}
    /\ share = None
    /\ rpc = None
    /\ handler = None
    /\ updates = None
    /\ launch = None

\* cursor.next::<M>() once more, until it has returned None.
CursorNext ==
    /\ ~cursor.done
    /\ Len(cursor.yielded) < MaxYield
    /\ \E o \in cursor_next(cursor) :
          cursor' = IF o = None THEN [cursor EXCEPT !.done = TRUE]
                    ELSE [cursor EXCEPT
                            !.leaf = o[1].leaf, !.pos = o[1].pos,
                            !.yielded = Append(cursor.yielded,
                                               LeafStart(cursor.root, o[1].leaf)
                                               + o[1].pos)]
    /\ UNCHANGED << builder, pc, breaks, added, edited, call, query, share,
                    rpc, handler, updates, launch >>

NextCursor == CursorNext

SpecCursor == InitCursor /\ [][NextCursor]_vars

\* ------------------------------------------- snapshots sharing leaf nodes

\* The tree is edited at most MaxEdits times after the snapshot is taken.
MaxEdits == 2

\* Leaf nodes live in cells of a heap (a sequence, a cell being an index); a
\* tree handle is [cells, len, info] and a clone is the same handle.
Deref(h, t) ==
    [nodes |-> [i \in 1..Len(t.cells) |-> h[t.cells[i]]],
     len   |-> t.len,
     info  |-> t.info]

\* A tree made by its owner: its nodes are put in fresh cells.
Alloc(h, t) ==
    [h |-> h \o t.nodes,
     t |-> [cells |-> [i \in 1..Len(t.nodes) |-> Len(h) + i],
            len |-> t.len, info |-> t.info]]

CellsOf(t) == {t.cells[i] : i \in 1..Len(t.cells)}

\* A faulty make_mut: a cell is written in place whoever else holds it.
make_mut_in_place(h, c, held) == [h |-> h, c |-> c]

\* Copy-on-write: a cell another tree holds is copied before it is written.
make_mut(h, c, held) ==
    IF c \in held THEN [h |-> Append(h, h[c]), c |-> Len(h) + 1]
    ELSE [h |-> h, c |-> c]

\* A handle on the given cells, its len and info accumulated from the nodes.
WithSummary(h, cells, v) ==
    [h |-> h, t |-> [cells |-> cells, len |-> v.len, info |-> v.info]]

handle_of(h, cells) ==
    WithSummary(h, cells, from_nodes([i \in 1..Len(cells) |-> h[cells[i]]]))

\* The merge of two boundary leaves: m is the first one's cell made writable,
\* r what push_maybe_split left in self and returned.
cow_merged(h, front, split, rest) ==
    handle_of(h, front \o (IF split THEN << Len(h) >> ELSE << >>) \o rest)

cow_merge(m, r, t1, t2) ==
    cow_merged(IF r.new = None THEN [m.h EXCEPT ![m.c] = LeafNode(r.self)]
               ELSE Append([m.h EXCEPT ![m.c] = LeafNode(r.self)],
                           LeafNode(r.new[1])),
               Front(t1.cells) \o << m.c >>,
               r.new # None,
               Tail(t2.cells))

\* concat on handles: the merge of the two boundary leaves writes the first
\* one's cell through make_mut; every other cell is shared.
cow_concat(h, t1, t2, held) ==
    LET c1 == t1.cells[Len(t1.cells)]
        c2 == t2.cells[1]
    IN  IF is_ok_child(h[c1].leaf) /\ is_ok_child(h[c2].leaf)
        THEN [h |-> h,
              t |-> [cells |-> t1.cells \o t2.cells,
                     len   |-> t1.len + t2.len,
                     info  |-> accumulate(t1.info, t2.info)]]
        ELSE cow_merge(make_mut(h, c1, held),
                       push_maybe_split(h[c1].leaf, h[c2].leaf, 0, h[c2].leaf.len),
                       t1, t2)

\* A builder on handles is st = [h, b]: the heap and None or Some(handle).
AsBuilder(r) == [h |-> r.h, b |-> Some(r.t)]

\* TreeBuilder::push on handles.
cow_push(st, t, held) ==
    IF st.b = None THEN [h |-> st.h, b |-> Some(t)]
    ELSE AsBuilder(cow_concat(st.h, st.b[1], t, held))

cow_push_alloc(a, b, held) == cow_push([h |-> a.h, b |-> b], a.t, held)

\* A slice of one leaf: a new leaf in a fresh cell, then pushed.
cow_push_subseq(st, l, start, end, held) ==
    cow_push_alloc(Alloc(st.h, from_leaf(subseq(l, start, end))), st.b, held)

\* A whole child: its cell is shared.
cow_push_child(st, c, held) ==
    cow_push(st, [cells |-> << c >>, len |-> st.h[c].len, info |-> st.h[c].info],
             held)

RECURSIVE cow_PushChildren(_, _, _, _, _, _, _)
cow_PushChildren(st, cells, i, offset, start, end, held) ==
    IF i > Len(cells) \/ end <= offset THEN st
    ELSE LET child == st.h[cells[i]]
             rs    == Max(start, offset)
             re    == Max(rs, Min(end, offset + child.len))
         IN  cow_PushChildren(
                 IF re <= rs THEN st
                 ELSE IF rs = offset /\ re = offset + child.len
                      THEN cow_push_child(st, cells[i], held)
                      ELSE cow_push_subseq(st, child.leaf,
                                           rs - offset, re - offset, held),
                 cells, i + 1, offset + child.len, start, end, held)

\* TreeBuilder::push_slice on handles.
cow_push_slice(st, n, start, end, held) ==
    IF end <= start THEN st
    ELSE IF start = 0 /\ end = n.len THEN cow_push(st, n, held)
    ELSE IF Len(n.cells) = 1
         THEN cow_push_subseq(st, st.h[n.cells[1]].leaf, start, end, held)
         ELSE cow_PushChildren(st, n.cells, 1, 0, start, end, held)

\* TreeBuilder::build on handles.
cow_build(st) ==
    IF st.b = None THEN Alloc(st.h, from_leaf(DefaultLeaf))
    ELSE [h |-> st.h, t |-> st.b[1]]

\* Node::edit on handles: self is alive throughout, so its cells are held,
\* as are those of the snapshots in `held`; new is owned by the edit.
cow_edit(h, self, start, end, new, held) ==
    cow_build(
        cow_push_slice(
            cow_push(cow_push_slice([h |-> h, b |-> None], self,
                                    0, Min(self.len, start),
                                    held \cup CellsOf(self)),
                     new, held \cup CellsOf(self)),
            self, Max(0, end), Max(self.len, end), held \cup CellsOf(self)))

\* The trees a snapshot is taken of.
ShareTrees ==
    {new_no_break(2), build(ThreeLines), build(OverOneLeaf(1)),
     build(add_break(NewBuilder, 0, 1))}

\* The replacements of an edit after a snapshot.
ShareReplacements ==
    {new_no_break(1), build(add_break(NewBuilder, 1, 2)),
     build([b |-> None, leaf |-> BuilderLeaf(1, 1, MIN_LEAF + 1, 0)])}

\* The interval starts of an edit after a snapshot.
ShareStarts(t) == {0, t.len} \cup {h \in {1, 32} : h <= t.len}

InitShare ==
    /\ builder = NewBuilder
    /\ pc = "building"
    /\ breaks = from_leaf(DefaultLeaf)
    /\ added = << >>
    /\ edited = None
    /\ call = None
    /\ query = None
    /\ cursor = None
    /\ share \in {[heap |-> Alloc(<< >>, t).h, a |-> Alloc(<< >>, t).t,
                    b |-> Alloc(<< >>, t).t, seen |-> t, edits |-> 0] :
                      t \in ShareTrees}
    /\ rpc = None
    /\ handler = None
    /\ updates = None
    /\ launch = None

\* The record of the snapshot and the tree after one more edit gave r = [h, t].
Edited(s, r) == [s EXCEPT !.heap = r.h, !.b = r.t, !.edits = s.edits + 1]

\* b.edit(start..end, new), a being a clone of the tree taken before.
ShareEdit ==
    /\ share.edits < MaxEdits
    /\ \E start \in ShareStarts(share.b), new \in ShareReplacements :
          \E end \in {start, Min(share.b.len, start + MaxSpan)} :
             LET n == Alloc(share.heap, new)
             IN  share' = Edited(share, cow_edit(n.h, share.b, start, end, n.t,
                                                 CellsOf(share.a)))
    /\ UNCHANGED << builder, pc, breaks, added, edited, call, query, cursor,
                    rpc, handler, updates, launch >>

NextShare == ShareEdit

SpecShare == InitShare /\ [][NextShare]_vars

\* --------------------------------------- decoding a front-end edit command

\* The variants of EditNotification and EditRequest by their "method" names
\* (rename_all = "snake_case"): those without fields, those with.
EditNotification ==
    [unit |-> {"delete_forward", "delete_backward", "delete_word_forward",
               "delete_word_backward", "delete_to_end_of_paragraph",
               "delete_to_beginning_of_line", "insert_newline", "insert_tab",
               "move_up", "move_up_and_modify_selection", "move_down",
               "move_down_and_modify_selection", "move_left", "move_backward",
               "move_left_and_modify_selection", "move_right", "move_forward",
               "move_right_and_modify_selection", "move_word_left",
               "move_word_left_and_modify_selection", "move_word_right",
               "move_word_right_and_modify_selection",
               "move_to_beginning_of_paragraph", "move_to_end_of_paragraph",
               "move_to_left_end_of_line",
               "move_to_left_end_of_line_and_modify_selection",
               "move_to_right_end_of_line",
               "move_to_right_end_of_line_and_modify_selection",
               "move_to_beginning_of_document",
               "move_to_beginning_of_document_and_modify_selection",
               "move_to_end_of_document",
               "move_to_end_of_document_and_modify_selection",
               "scroll_page_up", "page_up_and_modify_selection",
               "scroll_page_down", "page_down_and_modify_selection",
               "select_all", "add_selection_above", "add_selection_below",
               "yank", "transpose", "undo", "redo", "debug_rewrap",
               "debug_print_spans"},
     fields |-> {"insert", "scroll", "goto_line", "request_lines", "click",
                 "drag", "gesture", "find_next", "find_previous"}]

EditRequest == [unit |-> {"cut", "copy"}, fields |-> {"find"}]

\* A JSON value by its kind; "absent" is a key the object does not have.
JsonKinds ==
    {"absent", "null", "bool", "number", "string",
     "empty_array", "array", "empty_object", "object"}

\* T::deserialize(v) of the derived, adjacently tagged enum T
\* (tag = "method", content = "params", other keys ignored): the results it
\* can have.  A variant without fields takes no content (or null); what a
\* variant with fields makes of a non-empty content depends on the content.
enum_deserialize(T, method, params) ==
    IF method = None \/ method[1] \notin (T.unit \cup T.fields)
    THEN {[ok |-> FALSE]}
    ELSE IF method[1] \in T.unit
         THEN IF params \in {"absent", "null"}
              THEN {[ok |-> TRUE, cmd |-> [method |-> method[1], params |-> "absent"]]}
              ELSE {[ok |-> FALSE]}
         ELSE IF params \in {"array", "object"}
              THEN {[ok |-> TRUE, cmd |-> [method |-> method[1], params |-> params]],
                    [ok |-> FALSE]}
              ELSE {[ok |-> FALSE]}

\* A faulty deserialize: only an empty array is removed, an empty object stays.
EditCommand_deserialize_arrays_only(T, v) ==
    IF v.view_id = None THEN {[ok |-> FALSE]}
    ELSE IF v.params \notin {"absent", "empty_array", "array", "empty_object", "object"}
         THEN {[ok |-> FALSE]}
         ELSE LET remove_params == v.params = "empty_array"
                  params == IF remove_params THEN "absent" ELSE v.params
              IN  {IF r.ok THEN [ok |-> TRUE, view_id |-> v.view_id[1], cmd |-> r.cmd]
                   ELSE [ok |-> FALSE] :
                      r \in enum_deserialize(T, v.method, params)}

\* <EditCommand<T> as Deserialize>::deserialize on the object v =
\* [view_id, method, params]: an error, or the command with its view_id.
EditCommand_deserialize(T, v) ==
    IF v.view_id = None THEN {[ok |-> FALSE]}
    ELSE IF v.params \notin {"absent", "empty_array", "array", "empty_object", "object"}
         THEN {[ok |-> FALSE]}
         ELSE LET remove_params == v.params \in {"empty_object", "empty_array"}
                  params == IF remove_params THEN "absent" ELSE v.params
              IN  {IF r.ok THEN [ok |-> TRUE, view_id |-> v.view_id[1], cmd |-> r.cmd]
                   ELSE [ok |-> FALSE] :
                      r \in enum_deserialize(T, v.method, params)}

\* The command objects decoded: with and without a view_id, every method of
\* the two enums, an unknown one and none, every kind of "params".
CommandObjects ==
    [view_id : {None, Some("view-id-3"), Some("view-id-5")},
     method  : {None, Some("bogus")}
               \cup {Some(m) : m \in EditNotification.unit \cup EditNotification.fields
                                     \cup EditRequest.unit \cup EditRequest.fields},
     params  : JsonKinds]

InitRpc ==
    /\ builder = NewBuilder
    /\ pc = "building"
    /\ breaks = from_leaf(DefaultLeaf)
    /\ added = << >>
    /\ edited = None
    /\ call = None
    /\ query = None
    /\ cursor = None
    /\ share = None
    /\ rpc \in {[v |-> v, T |-> "none", out |-> None] : v \in CommandObjects}
    /\ handler = None
    /\ updates = None
    /\ launch = None

\* serde_json::from_value::<EditCommand<EditNotification>>(v).
DecodeNotification ==
    /\ rpc.out = None
    /\ \E r \in EditCommand_deserialize(EditNotification, rpc.v) :
          rpc' = [rpc EXCEPT !.T = "EditNotification", !.out = Some(r)]
    /\ UNCHANGED << builder, pc, breaks, added, edited, call, query, cursor,
                    share, handler, updates, launch >>

\* serde_json::from_value::<EditCommand<EditRequest>>(v).
DecodeRequest ==
    /\ rpc.out = None
    /\ \E r \in EditCommand_deserialize(EditRequest, rpc.v) :
          rpc' = [rpc EXCEPT !.T = "EditRequest", !.out = Some(r)]
    /\ UNCHANGED << builder, pc, breaks, added, edited, call, query, cursor,
                    share, handler, updates, launch >>

NextRpc == DecodeNotification \/ DecodeRequest

SpecRpc == InitRpc /\ [][NextRpc]_vars

\* ------------------------------------- serializing a front-end edit command

\* A serde_json::Value: its kind and what it holds (an object as a function
\* from its keys).
JNull == [k |-> "null"]

\* A bool, number or string.
JScalar(kind, x) == [k |-> kind, x |-> x]

JArr(a) == [k |-> "array", a |-> a]

JObj(o) == [k |-> "object", o |-> o]

\* An Option field of a derived Serialize: null for None.
JOption(kind, o) == IF o = None THEN JNull ELSE JScalar(kind, o[1])

\* <LineRange as Serialize>::serialize: the tuple (first, last).
LineRange_serialize(r) ==
    JArr(<< JScalar("number", r.first), JScalar("number", r.last) >>)

\* <MouseAction as Serialize>::serialize: the tuple struct
\* Helper(line, column, flags, click_count), always of four elements.
MouseAction_serialize(a) ==
    JArr(<< JScalar("number", a.line), JScalar("number", a.column),
            JScalar("number", a.flags), JOption("number", a.click_count) >>)

\* The values of the variants with fields, by method name.
FieldsOf(method) ==
    CASE method = "insert" -> [chars : {"a"}]
      [] method \in {"scroll", "request_lines"} -> [first : {5, 12}, last : {57}]
      [] method = "goto_line" -> [line : {1}]
      [] method \in {"click", "drag"} ->
            [line : {6}, column : {0, 15}, flags : {0}, click_count : {None, Some(1)}]
      [] method = "gesture" -> [line : {1}, column : {0}, ty : {"toggle_sel"}]
      [] method = "find_next" ->
            [wrap_around : {None, Some(TRUE), Some(FALSE)},
             allow_same  : {None, Some(TRUE), Some(FALSE)}]
      [] method = "find_previous" -> [wrap_around : {None, Some(TRUE), Some(FALSE)}]
      [] method = "find" -> [chars : {None, Some("m")}, case_sensitive : BOOLEAN]

\* The values of the enum T: the variants without fields, those with.
ValuesOf(T) ==
    {[method |-> m, fields |-> << >>] : m \in T.unit}
    \cup UNION {{[method |-> m, fields |-> f] : f \in FieldsOf(m)} : m \in T.fields}

\* The content ("params") of a variant with fields, as the derived Serialize
\* of the enum and the impls of LineRange and MouseAction write it.
content_to_value(c) ==
    LET f == c.fields
    IN  CASE c.method = "insert" -> JObj("chars" :> JScalar("string", f.chars))
          [] c.method \in {"scroll", "request_lines"} -> LineRange_serialize(f)
          [] c.method = "goto_line" -> JObj("line" :> JScalar("number", f.line))
          [] c.method \in {"click", "drag"} -> MouseAction_serialize(f)
          [] c.method = "gesture" ->
                JObj(("line" :> JScalar("number", f.line))
                     @@ ("column" :> JScalar("number", f.column))
                     @@ ("ty" :> JScalar("string", f.ty)))
          [] c.method = "find_next" ->
                JObj(("wrap_around" :> JOption("bool", f.wrap_around))
                     @@ ("allow_same" :> JOption("bool", f.allow_same)))
          [] c.method = "find_previous" ->
                JObj("wrap_around" :> JOption("bool", f.wrap_around))
          [] c.method = "find" ->
                JObj(("chars" :> JOption("string", f.chars))
                     @@ ("case_sensitive" :> JScalar("bool", f.case_sensitive)))

\* serde_json::to_value(&self.cmd) of the adjacently tagged enum: "method",
\* and "params" for a variant with fields.
to_value(c) ==
    IF c.fields = << >>
    THEN JObj("method" :> JScalar("string", c.method))
    ELSE JObj(("method" :> JScalar("string", c.method))
              @@ ("params" :> content_to_value(c)))

\* v[key] = new of serde_json (IndexMut by a string key): null is treated as
\* an empty object, an object gets the key, any other value panics.
index_mut_set(v, key, new) ==
    IF v.k = "null" THEN [tag |-> "Ok", v |-> JObj(key :> new)]
    ELSE IF v.k = "object"
         THEN [tag |-> "Ok",
               v   |-> JObj([x \in DOMAIN v.o \cup {key} |->
                               IF x = key THEN new ELSE v.o[x]])]
         ELSE [tag |-> "panic"]

\* v[key] read for writing: a key the object does not have is null.
index_mut_get(v, key) ==
    IF v.k = "object" /\ key \in DOMAIN v.o THEN v.o[key] ELSE JNull

\* <EditCommand<T> as Serialize>::serialize:
\* v["params"]["view_id"] = json!(self.view_id) on the value of the cmd.
EditCommand_serialize(x) ==
    LET v     == to_value(x.cmd)
        inner == index_mut_set(index_mut_get(v, "params"), "view_id",
                               JScalar("string", x.view_id))
    IN  IF inner.tag = "panic" THEN inner
        ELSE index_mut_set(v, "params", inner.v)

\* What the decoder looks at in a value: its "view_id" and "method" when they
\* are strings, and the kind of its "params".
Lookup(v, key) ==
    IF v.k = "object" /\ key \in DOMAIN v.o THEN Some(v.o[key]) ELSE None

StringAt(v, key) ==
    IF Lookup(v, key) # None /\ Lookup(v, key)[1].k = "string"
    THEN Some(Lookup(v, key)[1].x) ELSE None

KindAt(v, key) ==
    IF Lookup(v, key) = None THEN "absent"
    ELSE LET j == Lookup(v, key)[1]
         IN  IF j.k = "array" THEN (IF j.a = << >> THEN "empty_array" ELSE "array")
             ELSE IF j.k = "object"
                  THEN (IF DOMAIN j.o = {} THEN "empty_object" ELSE "object")
                  ELSE j.k

CommandObject(v) ==
    [view_id |-> StringAt(v, "view_id"), method |-> StringAt(v, "method"),
     params |-> KindAt(v, "params")]

\* The commands serialized: either view, every value of the two enums.
EditCommands ==
    {[view_id |-> i, T |-> "EditNotification", cmd |-> c] :
        i \in {"view-id-3", "view-id-5"}, c \in ValuesOf(EditNotification)}
    \cup {[view_id |-> i, T |-> "EditRequest", cmd |-> c] :
            i \in {"view-id-3", "view-id-5"}, c \in ValuesOf(EditRequest)}

InitSerde ==
    /\ builder = NewBuilder
    /\ pc = "building"
    /\ breaks = from_leaf(DefaultLeaf)
    /\ added = << >>
    /\ edited = None
    /\ call = None
    /\ query = None
    /\ cursor = None
    /\ share = None
    /\ handler = None
    /\ updates = None
    /\ launch = None
    /\ rpc \in {[x |-> x, ser |-> None, out |-> None] : x \in EditCommands}

\* serde_json::to_value(&x) of an EditCommand.
Serialize ==
    /\ rpc.ser = None
    /\ rpc' = [rpc EXCEPT !.ser = Some(EditCommand_serialize(rpc.x))]
    /\ UNCHANGED << builder, pc, breaks, added, edited, call, query, cursor,
                    share, handler, updates, launch >>

\* serde_json::from_value::<EditCommand<T>> of what was serialized.
Deserialize ==
    /\ rpc.ser # None
    /\ rpc.ser[1].tag = "Ok"
    /\ rpc.out = None
    /\ \E r \in EditCommand_deserialize(
                   IF rpc.x.T = "EditNotification" THEN EditNotification ELSE EditRequest,
                   CommandObject(rpc.ser[1].v)) :
          rpc' = [rpc EXCEPT !.out = Some(r)]
    /\ UNCHANGED << builder, pc, breaks, added, edited, call, query, cursor,
                    share, handler, updates, launch >>

NextSerde == Serialize \/ Deserialize

SpecSerde == InitSerde /\ [][NextSerde]_vars

\* ------------------------------------------ a plugin's RPC handler

\* A decoded "initialize" carries at most MaxInfos buffer_info entries.
MaxInfos == 2

\* The keys parse_plugin_request requires of an "update": four read with
\* dict_get_u64, two with dict_get_string.
UpdateRequired == {"start", "end", "new_len", "rev", "edit_type", "author"}

\* The methods a request is received with; "bogus" is one that is not matched.
PluginMethods == {"ping", "initialize", "did_save", "update", "bogus"}

\* The params of a request by what the decoders make of them: whether
\* as_object gives a dict, the required keys of it that hold a value of their
\* type, whether "text" holds a string, the length of the buffer_info list
\* when the value decodes as a BufferInfoWrapper (None when it does not), and
\* whether it decodes as a SaveWrapper.
PluginParams ==
    {[object |-> FALSE, good |-> {}, text |-> FALSE, buffer_info |-> None,
      path |-> FALSE]}
    \cup [object : {TRUE}, good : SUBSET UpdateRequired, text : BOOLEAN,
          buffer_info : {None} \cup {Some(n) : n \in 0..MaxInfos},
          path : BOOLEAN]

\* parse_plugin_request(method, params): Ok(request), Err(InternalError), or a
\* panic (Vec::remove(0) on an empty buffer_info).
parse_plugin_request(method, params) ==
    IF method = "ping" THEN [tag |-> "Ok", req |-> [variant |-> "Ping"]]
    ELSE IF method = "initialize"
    THEN IF params.buffer_info = None
         THEN [tag |-> "Err", err |-> "Invalid params"]
         ELSE IF params.buffer_info[1] = 0
              THEN [tag |-> "panic"]
              ELSE [tag |-> "Ok", req |-> [variant |-> "Initialize", buffer_info |-> 0]]
    ELSE IF method = "did_save"
    THEN IF params.path
         THEN [tag |-> "Ok", req |-> [variant |-> "DidSave"]]
         ELSE [tag |-> "Err", err |-> "Invalid params"]
    ELSE IF method = "update"
    THEN IF params.object /\ params.good = UpdateRequired
         THEN [tag |-> "Ok", req |-> [variant |-> "Update", text |-> params.text]]
         ELSE [tag |-> "Err", err |-> "Invalid params"]
    ELSE [tag |-> "Err", err |-> "Unknown method"]

\* MyHandler::handle_request: the requests passed to the plugin's handler and
\* the outcome, for each value Handler::call can return (an Option<Value>).
handle_request(method, params) ==
    LET p == parse_plugin_request(method, params)
    IN  IF p.tag = "panic"
        THEN {[calls |-> << >>, returned |-> None, out |-> [tag |-> "panic"]]}
        ELSE IF p.tag = "Ok"
        THEN {[calls    |-> << p.req >>,
               returned |-> Some(r),
               out      |-> IF r = None THEN [tag |-> "panic"]
                            ELSE [tag |-> "Ok", value |-> r[1]]] :
                 r \in {None, Some("value")}}
        ELSE {[calls |-> << >>, returned |-> None,
               out |-> [tag |-> "Err", err |-> "InvalidRequest", data |-> p.err]]}

\* MyHandler::handle_notification: the same without a result.
handle_notification(method, params) ==
    LET p == parse_plugin_request(method, params)
    IN  IF p.tag = "panic"
        THEN {[calls |-> << >>, returned |-> None, out |-> [tag |-> "panic"]]}
        ELSE IF p.tag = "Ok"
        THEN {[calls |-> << p.req >>, returned |-> Some(r), out |-> [tag |-> "unit"]] :
                 r \in {None, Some("value")}}
        ELSE {[calls |-> << >>, returned |-> None, out |-> [tag |-> "unit"]]}

InitHandler ==
    /\ builder = NewBuilder
    /\ pc = "building"
    /\ breaks = from_leaf(DefaultLeaf)
    /\ added = << >>
    /\ edited = None
    /\ call = None
    /\ query = None
    /\ cursor = None
    /\ share = None
    /\ rpc = None
    /\ updates = None
    /\ launch = None
    /\ handler \in {[method |-> m, params |-> ps, kind |-> "none", calls |-> << >>,
                     returned |-> None, out |-> [tag |-> "pending"]] :
                       m \in PluginMethods, ps \in PluginParams}

\* The RPC loop hands the handler a request.
HandleRequest ==
    /\ handler.kind = "none"
    /\ \E o \in handle_request(handler.method, handler.params) :
          handler' = [handler EXCEPT !.kind = "request", !.calls = o.calls,
                                     !.returned = o.returned, !.out = o.out]
    /\ UNCHANGED << builder, pc, breaks, added, edited, call, query, cursor,
                    share, rpc, updates, launch >>

\* The RPC loop hands the handler a notification.
HandleNotification ==
    /\ handler.kind = "none"
    /\ \E o \in handle_notification(handler.method, handler.params) :
          handler' = [handler EXCEPT !.kind = "notification", !.calls = o.calls,
                                     !.returned = o.returned, !.out = o.out]
    /\ UNCHANGED << builder, pc, breaks, added, edited, call, query, cursor,
                    share, rpc, updates, launch >>

NextHandler == HandleRequest \/ HandleNotification

SpecHandler == InitHandler /\ [][NextHandler]_vars

\* ------------------------------------------------------ the update thread

\* At most MaxUpdates updates are sent on the channel.
MaxUpdates == 3

\* What is sent on the channel: (view_id, update, undo_group, timestamp), the
\* timestamp being the number of the send.
UpdateItems(n) ==
    [view_id : {"view-id-3", "view-id-5"}, update : {"insert"},
     undo_group : {0, 1}, timestamp : {n}]

\* What manager_ref.update_plugins can return.
UpdateResults == {"Ok", "Err"}

\* The channel has its receiver in the thread and its senders elsewhere; the
\* thread starts in rx.recv().
InitUpdates ==
    /\ builder = NewBuilder
    /\ pc = "building"
    /\ breaks = from_leaf(DefaultLeaf)
    /\ added = << >>
    /\ edited = None
    /\ call = None
    /\ query = None
    /\ cursor = None
    /\ share = None
    /\ rpc = None
    /\ handler = None
    /\ launch = None
    /\ updates \in {[senders |-> n, queue |-> << >>, sent |-> << >>,
                     thread |-> "recv", cur |-> None, forwarded |-> << >>,
                     results |-> << >>] : n \in {1, 2}}

\* A holder of a Sender sends an update.
Send ==
    /\ updates.senders > 0
    /\ Len(updates.sent) < MaxUpdates
    /\ \E u \in UpdateItems(Len(updates.sent) + 1) :
          updates' = [updates EXCEPT !.queue = Append(@, u), !.sent = Append(@, u)]
    /\ UNCHANGED << builder, pc, breaks, added, edited, call, query, cursor,
                    share, rpc, handler, launch >>

\* A Sender is dropped.
DropSender ==
    /\ updates.senders > 0
    /\ updates' = [updates EXCEPT !.senders = @ - 1]
    /\ UNCHANGED << builder, pc, breaks, added, edited, call, query, cursor,
                    share, rpc, handler, launch >>

\* rx.recv() returns Ok with the oldest update of the channel.
RecvOk ==
    /\ updates.thread = "recv"
    /\ updates.queue # << >>
    /\ updates' = [updates EXCEPT !.queue = Tail(@), !.cur = Some(Head(updates.queue)),
                                  !.thread = "update_plugins"]
    /\ UNCHANGED << builder, pc, breaks, added, edited, call, query, cursor,
                    share, rpc, handler, launch >>

\* A faulty loop body: an error of update_plugins ends the loop.
UpdatePlugins_stops_on_error ==
    /\ updates.thread = "update_plugins"
    /\ \E r \in UpdateResults :
          updates' = [updates EXCEPT !.forwarded = Append(@, updates.cur[1]),
                                     !.results = Append(@, r),
                                     !.cur = None,
                                     !.thread = IF r = "Err" THEN "done" ELSE "recv"]
    /\ UNCHANGED << builder, pc, breaks, added, edited, call, query, cursor,
                    share, rpc, handler, launch >>

\* manager_ref.update_plugins(view_id, update, undo_group, timestamp): an
\* error is printed, and the loop goes on to the next recv either way.
UpdatePlugins ==
    /\ updates.thread = "update_plugins"
    /\ \E r \in UpdateResults :
          updates' = [updates EXCEPT !.forwarded = Append(@, updates.cur[1]),
                                     !.results = Append(@, r),
                                     !.cur = None,
                                     !.thread = "recv"]
    /\ UNCHANGED << builder, pc, breaks, added, edited, call, query, cursor,
                    share, rpc, handler, launch >>

\* rx.recv() returns Err (the channel is empty and every Sender is dropped):
\* break.
RecvErr ==
    /\ updates.thread = "recv"
    /\ updates.queue = << >>
    /\ updates.senders = 0
    /\ updates' = [updates EXCEPT !.thread = "done"]
    /\ UNCHANGED << builder, pc, breaks, added, edited, call, query, cursor,
                    share, rpc, handler, launch >>

\* The steps of the spawned thread.
UpdateThread == RecvOk \/ UpdatePlugins \/ RecvErr

NextUpdates == Send \/ DropSender \/ UpdateThread

\* The spawned thread is scheduled as long as it has a step to take.
SpecUpdates == InitUpdates /\ [][NextUpdates]_vars /\ WF_vars(UpdateThread)

\* ---------------------------------------------------- starting a plugin

\* The main loop of a started plugin reads at most MaxRead messages, and the
\* holders of its PluginRef send it at most MaxNotify notifications.
MaxRead == 2

MaxNotify == 2

\* The plugins started: the name of the description and the identifier.
PluginDescriptions == {"syntect", "spellcheck"}

PluginPids == {1, 2}

\* The errors ProcCommand::spawn can return.
SpawnErrors == {"NotFound", "PermissionDenied"}

\* start_plugin_process has spawned its thread, which has yet to run.
InitLaunch ==
    /\ builder = NewBuilder
    /\ pc = "building"
    /\ breaks = from_leaf(DefaultLeaf)
    /\ added = << >>
    /\ edited = None
    /\ call = None
    /\ query = None
    /\ cursor = None
    /\ share = None
    /\ rpc = None
    /\ handler = None
    /\ updates = None
    /\ launch \in {[description |-> d, identifier |-> i, at |-> "spawn",
                    child |-> None, sent |-> << >>, dead |-> None,
                    completed |-> << >>, read |-> 0] :
                      d \in PluginDescriptions, i \in PluginPids}

\* ProcCommand::new(exec_path).stdin(piped).stdout(piped).spawn().
SpawnProcess ==
    /\ launch.at = "spawn"
    /\ \/ launch' = [launch EXCEPT !.child = Some([tag |-> "Ok"]), !.at = "ping"]
       \/ \E e \in SpawnErrors :
             launch' = [launch EXCEPT !.child = Some([tag |-> "Err", err |-> e]),
                                      !.at = "failed"]
    /\ UNCHANGED << builder, pc, breaks, added, edited, call, query, cursor,
                    share, rpc, handler, updates >>

\* A faulty Err arm: the error is dropped and the callback is not called.
CompletionErr_dropped ==
    /\ launch.at = "failed"
    /\ launch' = [launch EXCEPT !.at = "end"]
    /\ UNCHANGED << builder, pc, breaks, added, edited, call, query, cursor,
                    share, rpc, handler, updates >>

\* Err(err) => completion(Err(err)).
CompletionErr ==
    /\ launch.at = "failed"
    /\ launch' = [launch EXCEPT
                    !.completed = Append(@, [tag |-> "Err", err |-> launch.child[1].err]),
                    !.at = "end"]
    /\ UNCHANGED << builder, pc, breaks, added, edited, call, query, cursor,
                    share, rpc, handler, updates >>

\* RpcLoop::new(child_stdin), get_raw_peer, and the "ping" notification.
SendPing ==
    /\ launch.at = "ping"
    /\ launch' = [launch EXCEPT !.sent = Append(@, "ping"), !.at = "completion"]
    /\ UNCHANGED << builder, pc, breaks, added, edited, call, query, cursor,
                    share, rpc, handler, updates >>

\* The Plugin and its PluginRef are made, the flag false, and
\* completion(Ok(plugin_ref.clone())) is called: the callback sees the
\* plugin as it is at the call.
CompletionOk ==
    /\ launch.at = "completion"
    /\ launch' = [launch EXCEPT
                    !.dead = Some(FALSE),
                    !.completed =
                        Append(@, [tag         |-> "Ok",
                                   identifier  |-> launch.identifier,
                                   description |-> launch.description,
                                   dead        |-> FALSE,
                                   sent        |-> launch.sent,
                                   read        |-> launch.read]),
                    !.at = "mainloop"]
    /\ UNCHANGED << builder, pc, breaks, added, edited, call, query, cursor,
                    share, rpc, handler, updates >>

\* looper.mainloop reads a message of the plugin's output.
MainloopRead ==
    /\ launch.at = "mainloop"
    /\ launch.read < MaxRead
    /\ launch' = [launch EXCEPT !.read = @ + 1]
    /\ UNCHANGED << builder, pc, breaks, added, edited, call, query, cursor,
                    share, rpc, handler, updates >>

\* looper.mainloop returns (the plugin's output has ended); its result is
\* dropped and the thread ends.
MainloopReturns ==
    /\ launch.at = "mainloop"
    /\ launch' = [launch EXCEPT !.at = "end"]
    /\ UNCHANGED << builder, pc, breaks, added, edited, call, query, cursor,
                    share, rpc, handler, updates >>

\* A holder of the PluginRef the callback received: PluginRef::declare_dead.
DeclareDead ==
    /\ launch.dead = Some(FALSE)
    /\ launch' = [launch EXCEPT !.dead = Some(TRUE)]
    /\ UNCHANGED << builder, pc, breaks, added, edited, call, query, cursor,
                    share, rpc, handler, updates >>

\* A holder of the PluginRef: PluginRef::rpc_notification.
RpcNotification ==
    /\ launch.dead # None
    /\ Len(launch.sent) < 1 + MaxNotify
    /\ launch' = [launch EXCEPT !.sent = Append(@, "notification")]
    /\ UNCHANGED << builder, pc, breaks, added, edited, call, query, cursor,
                    share, rpc, handler, updates >>

\* The steps of the spawned thread up to the main loop.
LaunchThread == SpawnProcess \/ CompletionErr \/ SendPing \/ CompletionOk

NextLaunch ==
    \/ LaunchThread
    \/ MainloopRead \/ MainloopReturns \/ DeclareDead \/ RpcNotification

\* The spawned thread is scheduled as long as it has a step to take; how long
\* the main loop runs is up to the plugin.
SpecLaunch == InitLaunch /\ [][NextLaunch]_vars /\ WF_vars(LaunchThread)

\* ------------------------------------------------- the builder's and edit's claims

Shifted(es, d) == [i \in 1..Len(es) |-> << es[i][1] + d, es[i][2] >>]

\* The sum of the len arguments of the calls made on the builder.
RECURSIVE SumLensOver(_, _)
SumLensOver(lens, calls) ==
    IF lens = {} THEN 0
    ELSE LET v == CHOOSE x \in lens : TRUE
         IN  v * Len(SelectSeq(calls, LAMBDA c : c[2] = v))
             + SumLensOver(lens \ {v}, calls)

SumLens(calls) == SumLensOver({calls[i][2] : i \in 1..Len(calls)}, calls)

\* The largest width passed to add_break, 0 when it was never called.
WidestPassed(calls) ==
    LET ws == {calls[i][3] : i \in {j \in 1..Len(calls) : calls[j][1] = "break"}}
    IN  IF ws = {} THEN 0 ELSE CHOOSE w \in ws : \A x \in ws : x <= w

\* C1: t.edit([s, e), r) has length n - (e - s) + r.len and holds, in order,
\* t's breaks with offset <= s, r's breaks shifted by s, and t's breaks with
\* offset > e shifted by r.len - (e - s).
C1_EditSplices ==
    edited # None =>
        LET t == edited[1].t
            s == edited[1].start
            e == edited[1].end
            r == edited[1].new
        IN  /\ breaks.len = t.len - (e - s) + r.len
            /\ Entries(breaks) =
                  SelectSeq(Entries(t), LAMBDA x : x[1] <= s)
                  \o Shifted(Entries(r), s)
                  \o Shifted(SelectSeq(Entries(t), LAMBDA x : x[1] > e),
                             r.len - (e - s))

\* C2: the built tree's break count is the number of add_break calls and its
\* max_width the largest width passed to add_break (0 without a call).
C2_BuiltCountAndWidth ==
    pc = "built" =>
        /\ breaks.info.count = NumBreaks(added)
        /\ max_width(breaks) = WidestPassed(added)

\* C3: the built tree's len() is the sum of every len argument passed to
\* add_break and add_no_break, whatever flushes, merges and splits occurred.
C3_BuiltLen == pc = "built" => breaks.len = SumLens(added)

\* C3's case: a build of more than a leaf of breaks, with an add_no_break and
\* an add_break of len 0 among the calls, whose last leaf was merged and split.
C3_Witness ==
    /\ pc = "built"
    /\ NumBreaks(added) > MAX_LEAF
    /\ Len(breaks.nodes) = 2
    /\ \E i \in 1..Len(added) : added[i][1] = "no_break"
    /\ \E i \in 1..Len(added) : added[i][1] = "break" /\ added[i][2] = 0

\* C4: the root's cached summary of a built, made or edited tree is that of
\* its leaves: len the sum of the leaf lengths, count the number of entries,
\* max_width the largest width present (0 when there is none).
C4_RootSummaryFresh ==
    pc \in {"built", "made", "edited"} =>
        LET es == Entries(breaks)
            ls == Leaves(breaks)
        IN  /\ breaks.len = SumLen(ls, 1)
            /\ breaks.info.count = Len(es)
            /\ \/ es = << >> /\ max_width(breaks) = 0
               \/ /\ \E i \in 1..Len(es) : es[i][2] = max_width(breaks)
                  /\ \A i \in 1..Len(es) : es[i][2] <= max_width(breaks)

\* C4's case: an edit of a two-leaf tree took out its widest break and other
\* breaks remain.
C4_Witness ==
    /\ pc = "edited"
    /\ Len(edited[1].t.nodes) = 2
    /\ breaks.info.count > 0
    /\ max_width(breaks) < max_width(edited[1].t)

\* Every leaf the run holds: the builder's, its TreeBuilder's, the tree's.
AllLeaves ==
    {builder.leaf}
    \cup (IF builder.b = None THEN {}
          ELSE {builder.b[1].nodes[i].leaf : i \in 1..Len(builder.b[1].nodes)})
    \cup {breaks.nodes[i].leaf : i \in 1..Len(breaks.nodes)}

WellFormedLeaf(l) ==
    /\ \A i \in 1..Len(l.data) : 0 < l.data[i][1] /\ l.data[i][1] <= l.len
    /\ \A i \in 1..(Len(l.data) - 1) : l.data[i][1] < l.data[i + 1][1]

\* C8: in every leaf reached through the builder (len arguments of 0
\* included), new_no_break and edit, the offsets are strictly increasing and
\* in (0, len].
C8_LeafOffsets == \A l \in AllLeaves : WellFormedLeaf(l)

\* ------------------------------------------------ push_maybe_split's claims

\* self.data after the adoption as the contract states it: the old entries,
\* then (v - start + old len, w) for the entries (v, w) of other with
\* start < v <= end, in order.
ContractData(c) ==
    LET kept == SelectSeq(c.other.data,
                          LAMBDA x : c.iv[1][1] < x[1] /\ x[1] <= c.iv[1][2])
    IN  c.self.data \o Shifted(kept, c.self.len - c.iv[1][1])

\* self.len after the adoption as the contract states it, in usize arithmetic.
ContractLen(c) ==
    (c.self.len + Min(c.iv[1][2], c.other.len) - c.iv[1][1]) % USIZE

Returned(c) == c.out # None /\ c.out[1].status = "returned"

\* C5: a call that ends with at most MAX_LEAF entries returns None, leaves in
\* self.data the old entries followed by the adopted ones (an entry at start
\* is not adopted, one at end is), and grows self.len by
\* min(end, other.len) - start.
C5_NoSplitAdopts ==
    (Returned(call) /\ Len(ContractData(call)) <= MAX_LEAF) =>
        /\ call.out[1].new = None
        /\ call.out[1].self.data = ContractData(call)
        /\ call.out[1].self.len = ContractLen(call)

\* C5's case: a call on a leaf with breaks returned None; other held a break
\* at start, which it did not adopt, and one at end, which it did.
C5_Witness ==
    /\ Returned(call)
    /\ call.out[1].new = None
    /\ call.self.data # << >>
    /\ \E i \in 1..Len(call.other.data) : call.other.data[i][1] = call.iv[1][1]
    /\ \E i \in 1..Len(call.other.data) : call.other.data[i][1] = call.iv[1][2]
    /\ Len(call.out[1].self.data) > Len(call.self.data)
    /\ call.iv[1][2] < call.other.len

\* C6: a call that leaves more than MAX_LEAF entries splits at data.len()/2:
\* self keeps the first midpoint entries and its len becomes the last kept
\* offset; the returned leaf holds the rest, in order, each offset reduced by
\* that split offset, its len the combined length less the split offset.
C6_SplitAtMidpoint ==
    (Returned(call) /\ Len(ContractData(call)) > MAX_LEAF) =>
        LET all      == ContractData(call)
            midpoint == Len(all) \div 2
            units    == all[midpoint][1]
            o        == call.out[1]
        IN  /\ o.new # None
            /\ o.self.data = SubSeq(all, 1, midpoint)
            /\ o.self.len = units
            /\ o.new[1].data = Shifted(SubSeq(all, midpoint + 1, Len(all)), 0 - units)
            /\ o.new[1].len = ContractLen(call) - units
            /\ o.self.len + o.new[1].len = ContractLen(call)
            /\ o.self.data \o Shifted(o.new[1].data, units) = all

\* C6's case: a slice that starts inside other overfilled a leaf with breaks of
\* its own, and the split left the two leaves with different counts.
C6_Witness ==
    /\ Returned(call)
    /\ call.out[1].new # None
    /\ call.self.data # << >>
    /\ call.iv[1][1] > 0
    /\ Len(call.out[1].self.data) # Len(call.out[1].new[1].data)

\* C7: after a call with start <= end, self.len() is its previous length plus
\* end - start when None is returned, and the length of the retained prefix
\* (the offset of its last entry) when a leaf is returned.
C7_LenGrowsByInterval ==
    (Returned(call) /\ call.iv[1][1] <= call.iv[1][2]) =>
        LET o == call.out[1]
        IN  IF o.new = None
            THEN o.self.len = call.self.len + (call.iv[1][2] - call.iv[1][1])
            ELSE o.self.len = o.self.data[Len(o.self.data)][1]

\* ------------------------------------------------------ the metric's claims

StrictlyIncreasing(l) ==
    \A i \in 1..(Len(l.data) - 1) : l.data[i][1] < l.data[i + 1][1]

\* C9: to_base_units(leaf, k) is 0 for k = 0, the offset of the k-th entry for
\* 1 <= k <= data.len(), and len + 1 for k > data.len(), which is greater
\* than every offset in the leaf.
C9_ToBaseUnits ==
    query.op = "to_base_units" =>
        LET l == query.leaf
            k == query.arg
        IN  /\ k = 0 => query.res = 0
            /\ (1 <= k /\ k <= Len(l.data)) => query.res = l.data[k][1]
            /\ k > Len(l.data) =>
                  /\ query.res = l.len + 1
                  /\ \A i \in 1..Len(l.data) : l.data[i][1] < query.res

\* C9's case: a count past the last entry of a leaf whose last break is at its
\* end.
C9_Witness ==
    /\ query.op = "to_base_units"
    /\ query.arg > Len(query.leaf.data)
    /\ query.leaf.data # << >>
    /\ query.leaf.data[Len(query.leaf.data)][1] = query.leaf.len

\* C10: on a leaf with strictly increasing offsets from_base_units(leaf, off)
\* is the number of entries with offset <= off (index + 1 on an exact hit, the
\* insertion index otherwise), and no smaller offset converts to more.
C10_FromBaseUnits ==
    (query.op = "from_base_units" /\ StrictlyIncreasing(query.leaf)) =>
        LET d   == query.leaf.data
            off == query.arg
        IN  /\ query.res = Cardinality({i \in 1..Len(d) : d[i][1] <= off})
            /\ \A i \in 1..Len(d) : d[i][1] = off => query.res = (i - 1) + 1
            /\ (\A i \in 1..Len(d) : d[i][1] # off) =>
                  query.res = Cardinality({i \in 1..Len(d) : d[i][1] < off})
            /\ \A lower \in 0..off :
                  \A r \in from_base_units(query.leaf, lower) : r <= query.res

\* C10's case: an exact hit on an entry that is neither the first nor the last
\* of a leaf with strictly increasing offsets.
C10_Witness ==
    /\ query.op = "from_base_units"
    /\ StrictlyIncreasing(query.leaf)
    /\ \E i \in 2..(Len(query.leaf.data) - 1) : query.leaf.data[i][1] = query.arg

\* C11: in both metrics, for a leaf and an in-leaf offset that is a boundary,
\* to_base_units(leaf, from_base_units(leaf, offset)) is that offset.
C11_RoundTrip ==
    query.op \in {"round_trip", "round_trip_base"} => query.res = query.arg

\* C11's case: the round trip in the break metric from a boundary that is
\* neither the first nor the last entry of its leaf.
C11_Witness ==
    /\ query.op = "round_trip"
    /\ \E i \in 2..(Len(query.leaf.data) - 1) : query.leaf.data[i][1] = query.arg
    /\ query.leaf.data[1][1] < query.arg

\* C12: in both metrics and on every tree, the positions next returns from a
\* cursor at 0 are strictly increasing, and once it has returned None their
\* number is M::measure(root.info, root.len).
C12_CursorTraversal ==
    /\ \A i \in 1..(Len(cursor.yielded) - 1) :
          cursor.yielded[i] < cursor.yielded[i + 1]
    /\ cursor.done =>
          Len(cursor.yielded) =
             M_measure(cursor.metric, cursor.root.info, cursor.root.len)

\* C13: for a built, made or edited tree n and every k in [0, n.len()], the
\* infos of the slices n[0..k] and n[k..n.len()] accumulate to info(n): the
\* counts add up to n's count and the larger max_width is n's.
C13_InfoMonoid ==
    pc \in {"built", "made", "edited"} =>
        \A k \in 0..breaks.len :
            accumulate(node_subseq(breaks, 0, k).info,
                       node_subseq(breaks, k, breaks.len).info) = breaks.info

\* C14: for a built, made or edited tree t and every [s, e) with
\* 0 <= s <= e <= t.len(), t.edit([s, e), t[s..e]) has t's len, count,
\* max_width and entries.
C14_EditIdentity ==
    pc \in {"built", "made", "edited"} =>
        \A s \in 0..breaks.len : \A e \in s..breaks.len :
            LET same == edit(breaks, s, e, node_subseq(breaks, s, e))
            IN  /\ same.len = breaks.len
                /\ same.info = breaks.info
                /\ Entries(same) = Entries(breaks)

\* C15: after any edits of the tree a snapshot was taken of, the snapshot
\* still reads as when it was taken: the same leaves, hence the same len,
\* count, max_width, entries and metric conversions.
C15_SnapshotUnchanged == Deref(share.heap, share.a) = share.seen

\* C15's case: after two edits the edited tree differs from the snapshot,
\* still shares a leaf with it and no longer holds another of its leaves.
C15_Witness ==
    /\ share.edits >= 2
    /\ Deref(share.heap, share.b) # share.seen
    /\ CellsOf(share.a) \cap CellsOf(share.b) # {}
    /\ CellsOf(share.a) \ CellsOf(share.b) # {}

\* MAX_LEAF + 1 calls of add_break(1, 1) and nothing else.
OneMoreThanALeaf ==
    /\ Len(added) = MAX_LEAF + 1
    /\ \A i \in 1..Len(added) : added[i] = << "break", 1, 1 >>

\* C16: in a built, made or edited tree of more than one leaf every leaf holds
\* at least MIN_LEAF entries; 65 calls of add_break(1, 1) build two leaves
\* and count 65.
C16_Occupancy ==
    pc \in {"built", "made", "edited"} =>
        /\ Len(breaks.nodes) > 1 =>
              \A i \in 1..Len(breaks.nodes) :
                  Len(breaks.nodes[i].leaf.data) >= MIN_LEAF
        /\ (pc = "built" /\ OneMoreThanALeaf) =>
              /\ Len(breaks.nodes) = 2
              /\ breaks.info.count = MAX_LEAF + 1

\* C17: a push_maybe_split call with end > other.len() or start > end aborts
\* (it returns no leaf computed from a clamped interval), and a call with
\* start <= end <= other.len() returns.
C17_OutOfRangeAborts ==
    call.out # None =>
        IF call.iv[1][1] <= call.iv[1][2] /\ call.iv[1][2] <= call.other.len
        THEN call.out[1].status = "returned"
        ELSE call.out[1].status = "panicked"

\* C18: new_no_break(100).edit([50, 50), r), r a builder-made tree with a
\* single break of width 5 at its offset 0, has len 105, count 1 and the one
\* entry (50, 5).
C18_InsertKeepsBreak ==
    (/\ pc = "edited"
     /\ edited[1].t = new_no_break(100)
     /\ edited[1].start = 50
     /\ edited[1].end = 50
     /\ edited[1].new \in SingleBreakAtStart) =>
        /\ breaks.len = 105
        /\ breaks.info.count = 1
        /\ Entries(breaks) = << << 50, 5 >> >>

\* The methods without parameters of the enum a command was decoded as.
Parameterless(c) ==
    IF c.T = "EditNotification" THEN EditNotification.unit ELSE EditRequest.unit

\* C19: a command object without view_id, or with a "params" that is neither
\* an object nor an array, decodes to an error; a parameterless method with
\* view_id and with "params" absent, [] or {} decodes to its variant with
\* that view_id.
C19_DecodeEditCommand ==
    rpc.out # None =>
        /\ rpc.v.view_id = None => ~rpc.out[1].ok
        /\ rpc.v.params \in {"null", "bool", "number", "string"} => ~rpc.out[1].ok
        /\ (/\ rpc.v.view_id # None
            /\ rpc.v.method # None
            /\ rpc.v.method[1] \in Parameterless(rpc)
            /\ rpc.v.params \in {"absent", "empty_array", "empty_object"}) =>
               /\ rpc.out[1].ok
               /\ rpc.out[1].view_id = rpc.v.view_id[1]
               /\ rpc.out[1].cmd = [method |-> rpc.v.method[1], params |-> "absent"]

\* C19's case: a parameterless method sent with "params": {} was decoded.
C19_Witness ==
    /\ rpc.out # None
    /\ rpc.out[1].ok
    /\ rpc.v.params = "empty_object"
    /\ rpc.v.method[1] \in Parameterless(rpc)

\* C20: when a call on leaves of at most MAX_LEAF entries each returns a
\* leaf, the retained leaf and the returned leaf both hold at least MIN_LEAF
\* and at most MAX_LEAF entries.
C20_SplitHalvesOk ==
    (/\ Returned(call)
     /\ call.out[1].new # None
     /\ Len(call.self.data) <= MAX_LEAF
     /\ Len(call.other.data) <= MAX_LEAF) =>
        /\ MIN_LEAF <= Len(call.out[1].self.data)
        /\ Len(call.out[1].self.data) <= MAX_LEAF
        /\ MIN_LEAF <= Len(call.out[1].new[1].data)
        /\ Len(call.out[1].new[1].data) <= MAX_LEAF

\* C20's cases: a split of MAX_LEAF + 1 entries, which leaves self MIN_LEAF
\* of them, and a split of two full leaves.
C20_Witness ==
    /\ Returned(call)
    /\ call.out[1].new # None
    /\ \/ Len(call.out[1].self.data) = MIN_LEAF
       \/ Len(call.out[1].new[1].data) = MAX_LEAF

\* The least and the greatest of a non-empty set of numbers, as an Option.
Least(S) == IF S = {} THEN None ELSE Some(CHOOSE x \in S : \A y \in S : x <= y)

Greatest(S) == IF S = {} THEN None ELSE Some(CHOOSE x \in S : \A y \in S : x >= y)

OffsetsOf(l) == {l.data[i][1] : i \in 1..Len(l.data)}

\* C21: on a leaf with strictly increasing offsets and in both metrics,
\* next(l, o) is the least entry offset greater than o, prev(l, o) the greatest
\* entry offset less than o (None when there is none), and is_boundary(l, o)
\* holds exactly when an entry has offset o.
C21_BoundarySearch ==
    StrictlyIncreasing(query.leaf) =>
        /\ query.op = "next" =>
              query.res.v = Least({x \in OffsetsOf(query.leaf) : x > query.arg})
        /\ query.op = "prev" =>
              query.res.v = Greatest({x \in OffsetsOf(query.leaf) : x < query.arg})
        /\ query.op = "is_boundary" =>
              query.res.v = (query.arg \in OffsetsOf(query.leaf))

\* C21's case: prev in the base metric from the offset of an entry that has
\* entries on both sides.
C21_Witness ==
    /\ StrictlyIncreasing(query.leaf)
    /\ query.op = "prev"
    /\ query.res.m = "BreaksBaseMetric"
    /\ \E i \in 2..(Len(query.leaf.data) - 1) : query.leaf.data[i][1] = query.arg

\* The PluginRequest variant a method parses to.
VariantOf(method) ==
    CASE method = "ping" -> "Ping"
      [] method = "initialize" -> "Initialize"
      [] method = "did_save" -> "DidSave"
      [] method = "update" -> "Update"
      [] OTHER -> "none"

\* C22: for every request, provided the plugin's handler returns a value when
\* called, handle_request either calls the handler once with the parsed
\* request and returns Ok, or returns Err(InvalidRequest) without calling it.
C22_RequestNeverAborts ==
    (handler.kind = "request" /\ handler.returned # Some(None)) =>
        \/ /\ handler.out.tag = "Ok"
           /\ Len(handler.calls) = 1
           /\ handler.calls[1].variant = VariantOf(handler.method)
        \/ /\ handler.out.tag = "Err"
           /\ handler.out.err = "InvalidRequest"
           /\ handler.calls = << >>

\* What the thread has taken from the channel: forwarded, or about to be.
Taken == updates.forwarded \o updates.cur

\* The updates are forwarded once each and in the order sent, and the thread
\* has ended only if the channel is closed and everything sent was forwarded.
C23_InOrder ==
    /\ Taken \o updates.queue = updates.sent
    /\ Len(updates.results) = Len(updates.forwarded)
    /\ updates.thread = "done" =>
          /\ updates.senders = 0
          /\ updates.forwarded = updates.sent

\* C23: the update thread passes every update sent on the channel to
\* update_plugins exactly once and in the order sent, an error of
\* update_plugins does not stop it, and it ends only when the channel is
\* closed.
C23_UpdatesForwarded ==
    /\ []C23_InOrder
    /\ \A i \in 1..MaxUpdates :
          (Len(updates.sent) >= i) ~> (Len(updates.forwarded) >= i)

\* C23's case: the thread ended after forwarding updates that followed one
\* update_plugins had returned an error for.
C23_Witness ==
    /\ updates.thread = "done"
    /\ Len(updates.forwarded) = MaxUpdates
    /\ updates.results[1] = "Err"
    /\ updates.results[MaxUpdates] = "Err"

\* The callback was called at most once; once the thread is past its match
\* arm it was called once, with Err and the error of spawn when spawn failed,
\* otherwise with Ok of a plugin that is not dead, that was sent "ping" and
\* nothing else, and whose output has not been read.
C24_CalledOnce ==
    /\ Len(launch.completed) <= 1
    /\ launch.at \in {"mainloop", "end"} => Len(launch.completed) = 1
    /\ launch.completed # << >> =>
          LET c == launch.completed[1]
          IN  /\ launch.child # None
              /\ launch.child[1].tag = c.tag
              /\ c.tag = "Err" => c.err = launch.child[1].err
              /\ c.tag = "Ok" =>
                    /\ c.dead = FALSE
                    /\ c.sent = << "ping" >>
                    /\ c.read = 0
                    /\ c.identifier = launch.identifier
                    /\ c.description = launch.description

\* C24: start_plugin_process invokes its completion callback exactly once on
\* every run: with Err when spawning fails, otherwise with Ok of a plugin
\* whose dead flag is false, after "ping" was sent and before the main loop
\* reads the plugin's output.
C24_CompletionOnce ==
    /\ []C24_CalledOnce
    /\ <>(Len(launch.completed) = 1)

\* C24's case: the callback was called with Ok, and since then the main loop
\* has read the plugin's output and the plugin was declared dead.
C24_Witness ==
    /\ launch.completed # << >>
    /\ launch.completed[1].tag = "Ok"
    /\ launch.read > 0
    /\ launch.dead = Some(TRUE)
    /\ Len(launch.sent) > 1

\* C25: for every EditCommand x, serializing x succeeds and deserializing
\* the result gives x back: it succeeds, with the view_id and the method of x.
C25_SerdeInverse ==
    /\ rpc.ser # None => rpc.ser[1].tag = "Ok"
    /\ rpc.out # None =>
          /\ rpc.out[1].ok
          /\ rpc.out[1].view_id = rpc.x.view_id
          /\ rpc.out[1].cmd.method = rpc.x.cmd.method

=============================================================================
